---- MODULE Spec2Model ----
(***************************************************************************)
(* Model of src/arduino/main.cpp: the serial duty-cycle controller.        *)
(*                                                                         *)
(* The sketch has two globals (pwn, buffer) and one function, loop(), that *)
(* the Arduino core calls forever.  The UART receive interrupt fills the   *)
(* serial RX queue at any time; loop() drains it one character at a time   *)
(* and then writes pwn to the PWM pin.                                     *)
(*                                                                         *)
(* Line 12 of the source reads `while Serial.available()) {`; it is        *)
(* modelled as the evident `while (Serial.available()) {`.                 *)
(***************************************************************************)
EXTENDS Integers, Sequences, FiniteSets, TLC

VARIABLES
    pwn,        \* int pwn (line 3)
    buffer,     \* String buffer (line 4), a sequence of character codes
    rx,         \* the serial RX queue read by Serial.available()/read()
    pc,         \* position of the control thread inside loop()
    pin,        \* last duty analogWrite wrote to PWM_PIN (pin 9), NoWrite before
    intBits,    \* width of `int` on the build target (16 on AVR, 32 on ARM/ESP)
    sent,       \* number of bytes the peer has sent so far
    lineIn,     \* bytes returned by Serial.read() since the last '\n' read
    prevLine,   \* the bytes of the previous line read (without its '\n')
    prevPwn,    \* pwn as it was when the last '\n' was read
    nwrites,    \* analogWrite calls made in the current iteration of loop()
    nlines      \* '\n' characters processed in the current iteration

vars == <<pwn, buffer, rx, pc, pin, intBits, sent, lineIn, prevLine, prevPwn, nwrites, nlines>>

----------------------------------------------------------------------------
(* Bounds of the model *)

\* total number of bytes the peer sends
MaxInput == 6

\* bytes the RX queue holds at once
MaxRx == 3

----------------------------------------------------------------------------
(* Program constants *)

\* '\n'
NL == 10

\* '0' and '9'
CharZero == 48
CharNine == 57

\* upper end of the accepted duty range
MaxDuty == 255

\* marks a pin that analogWrite has not driven yet
NoWrite == -1

\* widths of `int` the Arduino targets give
IntWidths == {16, 32}

\* The bytes the peer sends in the model: '\n', the digits '2' '5' '6' and
\* the letter 'a'.
InputBytes == {NL, 50, 53, 54, 97}

----------------------------------------------------------------------------
(* Pure functions *)

\* isdigit without its upper bound: every byte from '0' upwards is a digit
isDigitNoUpper(c) == c >= CharZero

\* isDigit(c), line 21
isDigit(c) == c >= CharZero /\ c <= CharNine

\* width of `long`, the result type of String::toInt()
LongBits == 32

\* conversion of a long to `int value` (line 16): two's complement truncation
\* to the width of int; the identity where int is as wide as long.
ToInt(v, bits) ==
    IF bits >= LongBits
    THEN v
    ELSE LET m == v % (2 ^ bits)
         IN  IF m >= 2 ^ (bits - 1) THEN m - 2 ^ bits ELSE m

\* atol that takes the character after '0' for the digit zero
RECURSIVE atolFromOffByOne(_, _)
atolFromOffByOne(s, acc) ==
    IF s = <<>> \/ ~isDigit(Head(s))
    THEN acc
    ELSE atolFromOffByOne(Tail(s), acc * 10 + (Head(s) - (CharZero + 1)))

\* atol over the characters of the String: the leading run of digits,
\* accumulated most significant digit first; 0 for an empty string.
RECURSIVE atolFrom(_, _)
atolFrom(s, acc) ==
    IF s = <<>> \/ ~isDigit(Head(s))
    THEN acc
    ELSE atolFrom(Tail(s), acc * 10 + (Head(s) - CharZero))

\* buffer.toInt() assigned to `int value`, line 16
toInt(s, bits) == ToInt(atolFrom(s, 0), bits)

\* the range test with `<` written one too far
InRangeOffByOne(v) == v >= 0 /\ v <= MaxDuty + 1

\* the range test with `>` for `>=`
InRangePositive(v) == v > 0 /\ v <= MaxDuty

\* value >= 0 && value <= 255, line 17
InRange(v) == v >= 0 /\ v <= MaxDuty

\* pwn after the terminator branch, lines 17-19
pwnAfterLine(old, v) == IF InRange(v) THEN v ELSE old

\* the buffer cleared inside the `if` of line 17, so only for accepted values
bufferClearedIfAccepted(buf, v) == IF v >= 0 /\ v <= MaxDuty THEN <<>> ELSE buf

\* the buffer never cleared
bufferNotCleared(buf, v) == buf

\* buffer = "", line 20
bufferAfterLine(buf, v) == <<>>

\* buffer = c + buffer
bufferPrepend(buf, c) == <<c>> \o buf

\* buffer += c, line 22
bufferAppend(buf, c) == Append(buf, c)

\* Serial.available() as a condition, line 12
available(q) == Len(q) > 0

----------------------------------------------------------------------------
(* Initial state: globals as initialised, setup() done, nothing received *)

Init ==
    /\ pwn = 0
    /\ buffer = <<>>
    /\ rx = <<>>
    /\ pc = "start"
    /\ pin = NoWrite
    /\ intBits \in IntWidths
    /\ sent = 0
    /\ lineIn = <<>>
    /\ prevLine = <<>>
    /\ prevPwn = 0
    /\ nwrites = 0
    /\ nlines = 0

----------------------------------------------------------------------------
(* Actions *)

\* The UART receive interrupt stores one byte in the RX queue.
Receive ==
    /\ sent < MaxInput
    /\ Len(rx) < MaxRx
    /\ \E c \in InputBytes : rx' = Append(rx, c)
    /\ sent' = sent + 1
    /\ UNCHANGED <<pwn, buffer, pc, pin, intBits, lineIn, prevLine, prevPwn, nwrites, nlines>>

\* main() calls loop() after setup() and again after each return, line 11
LoopEntry ==
    /\ pc \in {"start", "return"}
    /\ pc' = "while"
    /\ nwrites' = 0
    /\ nlines' = 0
    /\ UNCHANGED <<pwn, buffer, rx, pin, intBits, sent, lineIn, prevLine, prevPwn>>

\* One pass through the body of the while loop, lines 12-24
ReadChar ==
    /\ pc = "while"
    /\ available(rx)
    /\ LET c == Head(rx)
       IN  /\ rx' = Tail(rx)
           /\ IF c = NL
              THEN LET value == toInt(buffer, intBits)
                   IN  /\ pwn' = pwnAfterLine(pwn, value)
                       /\ buffer' = bufferAfterLine(buffer, value)
                       /\ prevLine' = lineIn
                       /\ prevPwn' = pwn
                       /\ lineIn' = <<>>
                       /\ nlines' = nlines + 1
              ELSE /\ buffer' = IF isDigit(c) THEN bufferAppend(buffer, c) ELSE buffer
                   /\ lineIn' = Append(lineIn, c)
                   /\ UNCHANGED <<pwn, prevLine, prevPwn, nlines>>
    /\ UNCHANGED <<pc, pin, intBits, sent, nwrites>>

\* The drain left after any character, as `if` for `while` would
ExitWhileEarly ==
    /\ pc = "while"
    /\ pc' = "write"
    /\ UNCHANGED <<pwn, buffer, rx, pin, intBits, sent, lineIn, prevLine, prevPwn, nwrites, nlines>>

\* The while condition is false, line 12
ExitWhile ==
    /\ pc = "while"
    /\ ~available(rx)
    /\ pc' = "write"
    /\ UNCHANGED <<pwn, buffer, rx, pin, intBits, sent, lineIn, prevLine, prevPwn, nwrites, nlines>>

\* The pin written only in iterations that processed a line
AnalogWriteIfLine ==
    /\ pc = "write"
    /\ pin' = IF nlines > 0 THEN pwn ELSE pin
    /\ nwrites' = IF nlines > 0 THEN nwrites + 1 ELSE nwrites
    /\ pc' = "return"
    /\ UNCHANGED <<pwn, buffer, rx, intBits, sent, lineIn, prevLine, prevPwn, nlines>>

\* analogWrite(PWM_PIN, pwn), line 26, and the return of loop()
AnalogWrite ==
    /\ pc = "write"
    /\ pin' = pwn
    /\ nwrites' = nwrites + 1
    /\ pc' = "return"
    /\ UNCHANGED <<pwn, buffer, rx, intBits, sent, lineIn, prevLine, prevPwn, nlines>>

Next == Receive \/ LoopEntry \/ ReadChar \/ ExitWhile \/ AnalogWrite

Spec == Init /\ [][Next]_vars

----------------------------------------------------------------------------
(* Vocabulary of the properties *)

DigitChars == 48..57

AllDigits(s) == \A i \in 1..Len(s) : s[i] \in DigitChars

\* the digit characters of s, in the order of s
DigitsOf(s) == SelectSeq(s, LAMBDA c : c \in DigitChars)

\* the number a sequence of digit characters denotes in base ten
RECURSIVE DecVal(_)
DecVal(s) ==
    IF s = <<>> THEN 0
    ELSE 10 * DecVal(SubSeq(s, 1, Len(s) - 1)) + (s[Len(s)] - 48)

\* the step in which loop() reads a character off the RX queue
ReadStep == pc = "while" /\ rx # <<>> /\ rx' = Tail(rx)

\* the step in which loop() processes a '\n'
NewlineStep == ReadStep /\ Head(rx) = NL

\* a '\n' has been processed and nothing read after it
AfterNewline(line) == prevLine = line /\ lineIn = <<>> /\ buffer = <<>>

----------------------------------------------------------------------------
(* Properties *)

\* C1: in every reachable state the duty value pwn is an integer in [0, 255].
C1_DutyInRange == pwn \in 0..255

\* C1 witness: the line "255" was accepted, the largest legal duty.
C1_Witness == AfterNewline(<<50, 53, 53>>) /\ pwn = 255

\* C2: when the '\n' of a line of 1 to 3 digits with value at most 255 is
\* processed, pwn becomes the value of the line.
C2_ValidLineSetsDuty ==
    [][(NewlineStep /\ AllDigits(lineIn) /\ Len(lineIn) \in 1..3
            /\ DecVal(lineIn) <= 255)
        => pwn' = DecVal(lineIn)]_vars

\* C2 witness: the three-digit line "225" was processed while pwn was 5.
C2_Witness == AfterNewline(<<50, 50, 53>>) /\ prevPwn = 5 /\ pwn = 225

\* C3: when the '\n' of a line of digits (of any length) with value above 255
\* is processed, pwn keeps its prior value.
C3_LargeLineKeepsDuty ==
    [][(NewlineStep /\ AllDigits(lineIn) /\ DecVal(lineIn) > 255)
        => pwn' = pwn]_vars

\* C4: when a '\n' is processed and no digit was read since the previous
\* '\n' (the buffer is empty), pwn becomes 0.
C4_EmptyLineZeroesDuty ==
    [][(NewlineStep /\ (buffer = <<>> \/ DigitsOf(lineIn) = <<>>))
        => pwn' = 0]_vars

\* C4 witness: an empty line was processed while pwn was 5.
C4_Witness == AfterNewline(<<>>) /\ prevPwn = 5 /\ pwn = 0

\* C5: reading a byte that is neither a digit nor '\n' changes neither the
\* buffer nor pwn, and at a '\n' the digits read on the line, in the order
\* read, decide the value: if they denote at most 255, pwn becomes it.
C5_OtherBytesIgnored ==
    [][/\ (ReadStep /\ Head(rx) # NL /\ Head(rx) \notin DigitChars)
            => (buffer' = buffer /\ pwn' = pwn)
       /\ (NewlineStep /\ DecVal(DigitsOf(lineIn)) <= 255)
            => pwn' = DecVal(DigitsOf(lineIn))]_vars

\* C5 witness: the line "2a5" was processed and set pwn to 25.
C5_Witness == AfterNewline(<<50, 97, 53>>) /\ prevPwn = 0 /\ pwn = 25

\* C6: right after a '\n' is processed the buffer is empty, both when the
\* value was accepted and when it was rejected.
C6_BufferClearedAtNewline == [][NewlineStep => buffer' = <<>>]_vars

\* C6 witness: the line "256" was rejected (pwn stayed 5) and the buffer is
\* empty.
C6_Witness == AfterNewline(<<50, 53, 54>>) /\ prevPwn = 5 /\ pwn = 5

\* C7: the buffer holds digit characters only.
C7_BufferOnlyDigits == AllDigits(buffer)

\* C7 witness: a letter was read between two digits that are in the buffer.
C7_Witness == lineIn = <<50, 97, 53>> /\ buffer = <<50, 53>>

\* C8: when an iteration of loop() has ended it has written the pin exactly
\* once, with the current pwn; before the end it has not written.
C8_OneWritePerIteration ==
    /\ pc = "return" => (nwrites = 1 /\ pin = pwn)
    /\ pc \in {"while", "write"} => nwrites = 0

\* C8 witness: an iteration ended, and wrote, without any byte ever received.
C8_Witness == pc = "return" /\ sent = 0 /\ nwrites = 1 /\ pin = 0

\* C9: when the '\n' of a valid line equal to the previous line is processed,
\* the buffer held exactly that line (it was empty after the first), pwn does
\* not change, and the buffer is empty afterwards.
C9_SameLineTwice ==
    [][(NewlineStep /\ lineIn = prevLine /\ AllDigits(lineIn) /\ Len(lineIn) >= 1
            /\ DecVal(lineIn) <= 255)
        => (buffer = lineIn /\ pwn' = pwn /\ pwn' = DecVal(lineIn)
            /\ buffer' = <<>>)]_vars

\* C9 witness: "5\n5\n" was the whole input; both lines left pwn at 5.
C9_Witness == AfterNewline(<<53>>) /\ sent = 4 /\ rx = <<>> /\ prevPwn = 5 /\ pwn = 5

\* C10: the pin changes only by the write at the end of the iteration, to
\* the pwn of that moment, and the iteration comes to the write only when
\* the RX queue was found empty, characters leaving the queue at its head.
C10_DrainBeforeWrite ==
    [][/\ pin' # pin => (pc = "write" /\ pin' = pwn)
       /\ (pc # "write" /\ pc' = "write") => rx = <<>>
       /\ (pc = "while" /\ rx' # rx /\ Len(rx') <= Len(rx)) => rx' = Tail(rx)]_vars

\* C10 witness: the lines "5" and "6" were processed in one iteration, which
\* wrote 6; the pin never showed 5.
C10_Witness ==
    /\ pc = "return" /\ nlines = 2 /\ sent = 4
    /\ prevPwn = 5 /\ pwn = 6 /\ pin = 6

----------------------------------------------------------------------------
TypeOK ==
    /\ pwn \in Int
    /\ pc \in {"start", "while", "write", "return"}
    /\ Len(rx) <= MaxRx
    /\ sent \in 0..MaxInput

====
